---- MODULE Spec2Model ----
(***************************************************************************)
(* The campaign worker (workers/campaignWorker.js): the Reviver, the Claim *)
(* Engine, the Campaign Loop and the Orchestrator, run by several worker   *)
(* processes over one shared store.                                        *)
(*                                                                         *)
(* Time.  Every timestamp is kept relative to the present instant: the     *)
(* present is 0, a timestamp of the past is negative, one of the future    *)
(* positive.  Tick lets one unit of time pass by moving every stored       *)
(* timestamp one unit into the past.  A timestamp that is older than       *)
(* anything it is ever compared with stays at a floor, so the comparisons  *)
(* of the code keep their exact outcome and the state space stays finite.  *)
(***************************************************************************)
EXTENDS Integers, Sequences, FiniteSets, TLC

VARIABLES
    dispatch,          \* table campaignDispatch: id -> row
    campaing,          \* table campaing: campaignId -> status, or NULL (no row)
    runningCampaigns,  \* per process: the Set of campaignIds with a live loop
    loop,              \* per process and campaign: the frame of processCampaign
    refused,           \* the gateway's side: ids of the messages it did not deliver
    pausedSince,       \* the operator's side: the campaigns paused and not
                       \* set active again since
    env,               \* process.env.MAX_CAMPAIGN_CONCURRENCY, 0 when not set
    timer,             \* per process: where its tick is, and the setTimeouts pending
    template,          \* a text message: its text, the contact's profile, what is sent
    rest               \* the REST example (examples/rest/index.js): campaignQueue,
                       \* activeCampaigns, instancias, sessionStatus, qrcodesTemp
                       \* and the async calls under way

vars ==
    <<dispatch, campaing, runningCampaigns, loop, refused, pausedSince, env,
      timer, template, rest>>

NULL == "null"

\* Worker processes that share the store, each running its own orchestrate().
Procs == {1, 2}

\* Campaign ids.
Campaigns == {1, 2}

\* The latest initial scheduledAt, in ticks from the start.
MaxSched == 1

\* The highest ceiling MAX_CAMPAIGN_CONCURRENCY is set to.
MaxCeiling == 1

\* PROCESSING_TTL_MS (30 min) and the transaction timeout (15 s), in ticks.
\* Only their order matters: the TTL is longer than a transaction can last.
PROCESSING_TTL_MS == 2
TX_TIMEOUT == 2

\* Number(process.env.MAX_CAMPAIGN_CONCURRENCY || 0): 0 = no ceiling.
MAX_CAMPAIGN_CONCURRENCY == env

\* Floors of the relative timestamps (see the note on time above).
OldestUpdatedAt == 0 - (PROCESSING_TTL_MS + 1)
OldestNow == 0 - (TX_TIMEOUT - 1)

Max(a, b) == IF a >= b THEN a ELSE b

\* DateTime.now().setZone('America/Sao_Paulo').toJSDate(): the zone changes
\* how a DateTime prints, not the instant it denotes, so the Date returned is
\* the present instant, the same one new Date() / Date.now() gives.
getCurrentBrazilTime == 0

----------------------------------------------------------------------------
(* Rows *)

Row(c, ct, s, mo, cr, sch) ==
    [campaignId |-> c, contact |-> ct, sessionName |-> s, messageOrder |-> mo,
     createdAt |-> cr, status |-> "pending", scheduledAt |-> sch,
     updatedAt |-> OldestUpdatedAt, error |-> NULL]

\* scheduledAt is nullable: <<>> is null, <<t>> the timestamp t.
NoSchedule == <<>>
At(t) == <<t>>
Scheduled == {NoSchedule} \cup {At(t) : t \in 1..MaxSched}

\* One campaign, one contact, two messages; the row created first (id 1) is
\* the second message of the sequence.
TablesOneGroup ==
    { <<Row(1, 1, "s1", 2, 1, a), Row(1, 1, "s1", 1, 2, b)>> :
        a \in Scheduled, b \in Scheduled }

\* Two campaigns, the first with two messages for its contact, the second
\* with one.
TablesTwoCampaigns ==
    { <<Row(1, 1, "s1", 1, 1, NoSchedule), Row(1, 1, "s1", 2, 2, NoSchedule),
        Row(2, 2, "s1", 1, 3, NoSchedule)>> }

\* One campaign with two contacts, one message each.
TablesTwoContacts ==
    { <<Row(1, 1, "s1", 1, 1, a), Row(1, 2, "s1", 1, 2, NoSchedule)>> :
        a \in Scheduled }

\* One campaign with two messages for its first contact, one for its second
\* contact and one for the first contact on a second session.
TablesGroups ==
    { <<Row(1, 1, "s1", 1, 1, a), Row(1, 1, "s1", 2, 2, NoSchedule),
        Row(1, 2, "s1", 1, 3, NoSchedule), Row(1, 1, "s2", 1, 4, NoSchedule)>> :
        a \in Scheduled }

Ids == DOMAIN dispatch

SameGroup(r, q) ==
    /\ r.campaignId = q.campaignId
    /\ r.contact = q.contact
    /\ r.sessionName = q.sessionName

\* where: { status: 'pending' } alone.
ReadyWhenPending(r, t) == r.status = "pending"

\* where: { status: 'pending', OR: [{scheduledAt: null}, {scheduledAt: {lte: now}}] }
ReadyAt(r, t) ==
    /\ r.status = "pending"
    /\ (r.scheduledAt = NoSchedule \/ r.scheduledAt[1] <= t)

----------------------------------------------------------------------------
(* The frame of one processCampaign call *)

\* first: of the row findFirst returned, the two fields the claim goes on to
\* use, first.contact and first.sessionName.
NoFirst == [contact |-> 0, sessionName |-> ""]

\* earlier: the rows that were in processing already when claimTime was
\* taken and carry a stamp of that same tick.  Their stamp was written before
\* claimTime was read, so it is the older of the two, which the tick alone
\* does not tell.
Off == [pc |-> "off", now |-> 0, claimTime |-> 0, first |-> NoFirst,
        earlier |-> {}, batch |-> <<>>, i |-> 0]

\* renderTemplate has not been called for the message.
NotYet == <<"not yet">>

\* null or undefined, where a string is looked for.
Nothing == <<NULL>>

\* No row of segmentContact for the contact.
NoProfile == [found |-> FALSE]

\* No text message is being looked at.
NoTemplate ==
    [text |-> <<>>, contactData |-> NoProfile, finalMessage |-> NotYet]

\* The most contacts, templates and messages of a template a campaign of the
\* REST example is dispatched with, and the most calls that create a client
\* for the session followed at a time.
MaxContacts == 2
MaxTemplates == 2
MaxMessages == 2
MaxCreations == 2

\* campaignQueue.get(campaignId) of a campaignId that was never set.
NoCampaign == [status |-> "none", totalContacts |-> 0, processedContacts |-> 0]

\* No call of processCampaignInBackground has been made.
Idle == [pc |-> "idle", contacts |-> 0, templates |-> <<>>, i |-> 0, t |-> 0,
         results |-> 0]

\* instancias[sessionName] of a session that has no client.
NoClient == 0

\* A call that creates a client: none under way in this slot.
NoCreation == [pc |-> "off", fn |-> "none"]

\* index.js when the server has started: lines 14-16 and 1675-1676, and no
\* request yet.
NoRest ==
    [campaignQueue |-> NoCampaign, activeCampaigns |-> FALSE,
     background |-> Idle,
     instancias |-> NoClient, sessionStatus |-> "none", qrcodesTemp |-> FALSE,
     creations |-> [n \in 1..MaxCreations |-> NoCreation]]

InClaim(l) == l.pc \in {"find", "update"}

Init ==
    /\ dispatch \in TablesOneGroup
    /\ campaing = [c \in Campaigns |-> IF c = 1 THEN "active" ELSE NULL]
    /\ runningCampaigns = [p \in Procs |-> {}]
    /\ loop = [p \in Procs |-> [c \in Campaigns |-> Off]]
    /\ refused = {}
    /\ pausedSince = {}
    /\ env = 0
    \* BOOT: orchestrate() is called once, no setTimeout is pending
    /\ timer = [p \in Procs |-> [pc |-> "sweep", pending |-> 0]]
    /\ template = NoTemplate
    /\ rest = NoRest

\* The same start with a ceiling set and two campaigns that have work.
InitCeiling ==
    /\ dispatch \in TablesTwoCampaigns
    /\ campaing = [c \in Campaigns |-> "active"]
    /\ runningCampaigns = [p \in Procs |-> {}]
    /\ loop = [p \in Procs |-> [c \in Campaigns |-> Off]]
    /\ refused = {}
    /\ pausedSince = {}
    /\ env \in 1..MaxCeiling
    /\ timer = [p \in Procs |-> [pc |-> "sweep", pending |-> 0]]
    /\ template = NoTemplate
    /\ rest = NoRest

\* The same start with a campaign of several groups.
InitGroups ==
    /\ dispatch \in TablesGroups
    /\ campaing = [c \in Campaigns |-> IF c = 1 THEN "active" ELSE NULL]
    /\ runningCampaigns = [p \in Procs |-> {}]
    /\ loop = [p \in Procs |-> [c \in Campaigns |-> Off]]
    /\ refused = {}
    /\ pausedSince = {}
    /\ env = 0
    /\ timer = [p \in Procs |-> [pc |-> "sweep", pending |-> 0]]
    /\ template = NoTemplate
    /\ rest = NoRest

\* The same start with a campaign of two contacts.
InitContacts ==
    /\ dispatch \in TablesTwoContacts
    /\ campaing = [c \in Campaigns |-> IF c = 1 THEN "active" ELSE NULL]
    /\ runningCampaigns = [p \in Procs |-> {}]
    /\ loop = [p \in Procs |-> [c \in Campaigns |-> Off]]
    /\ refused = {}
    /\ pausedSince = {}
    /\ env = 0
    /\ timer = [p \in Procs |-> [pc |-> "sweep", pending |-> 0]]
    /\ template = NoTemplate
    /\ rest = NoRest

----------------------------------------------------------------------------
(* Text messages: renderTemplate *)

\* A text is a sequence of tokens: the two braces pairs, a blank, a
\* character that is neither a blank nor a word character, and words.
Words == {"nome", "email", "empresa", "idade", "constructor"}

Tokens == {"{{", "}}", " ", "!"} \cup Words

\* The longest text.
MaxLen == 4

Texts == UNION {[1..n -> Tokens] : n \in 0..MaxLen}

\* payload.text of a message whose JSON has a number there.
NotAString == <<"number">>

\* The row of segmentContact, or none; a field is a string or null.  A
\* name may itself look like a placeholder.
Profiles ==
    {NoProfile} \cup [name : {Nothing, <<"Ana">>, <<"{{", "email", "}}">>},
                      email : {Nothing, <<"a@x.com">>},
                      empresa : {Nothing, <<"Acme">>}]

TypeError == <<"TypeError: text.replace is not a function">>

\* { nome: contactData?.name, email: contactData?.email,
\*   empresa: contactData?.empresa }
Fields(contactData) ==
    IF contactData = NoProfile
    THEN [nome |-> Nothing, email |-> Nothing, empresa |-> Nothing]
    ELSE [nome |-> contactData.name, email |-> contactData.email,
          empresa |-> contactData.empresa]

\* What String() makes of Object.prototype.constructor.
ObjectFunction == <<"function Object() { [native code] }">>

\* contactData[key]: the object literal has three properties of its own and
\* inherits the properties of Object.prototype, `constructor` among them; a
\* key of several word tokens is the name they spell together.
Get(obj, key) ==
    IF key = <<"nome">> THEN obj.nome
    ELSE IF key = <<"email">> THEN obj.email
    ELSE IF key = <<"empresa">> THEN obj.empresa
    ELSE IF key = <<"constructor">> THEN ObjectFunction
    ELSE Nothing

\* \s* and \w+ from position i: the first position that is not of the class.
RECURSIVE Skip(_, _, _)
Skip(text, i, class) ==
    IF i <= Len(text) /\ text[i] \in class
    THEN Skip(text, i + 1, class)
    ELSE i

NoMatch == [key |-> <<>>, next |-> 0]

\* /{{\s*(\w+)\s*}}/ at position i: the key and the position after the
\* match, or NoMatch.
Match(text, i) ==
    IF text[i] # "{{" THEN NoMatch
    ELSE LET a == Skip(text, i + 1, {" "})
             b == Skip(text, a, Words)
             c == Skip(text, b, {" "})
         IN  IF b > a /\ c <= Len(text) /\ text[c] = "}}"
             THEN [key |-> SubSeq(text, a, b - 1), next |-> c + 1]
             ELSE NoMatch

\* text.replace(/.../g, (_, key) => contactData[key] ?? ''): one scan from
\* left to right; what is put in is not scanned again.
RECURSIVE Replace(_, _, _)
Replace(text, i, obj) ==
    IF i > Len(text) THEN <<>>
    ELSE LET m == Match(text, i)
         IN  IF m = NoMatch
             THEN <<text[i]>> \o Replace(text, i + 1, obj)
             ELSE (IF Get(obj, m.key) = Nothing THEN <<>>
                   ELSE Get(obj, m.key))
                      \o Replace(text, m.next, obj)

\* Lines 55-60.  `!text` holds of undefined, null and ''; a text that is
\* not a string has no replace.
renderTemplate(text, obj) ==
    IF text = Nothing \/ text = <<>> THEN <<>>
    ELSE IF text = NotAString THEN TypeError
    ELSE Replace(text, 1, obj)

\* A message of type text with any text and any profile.
InitRender ==
    /\ dispatch \in TablesTwoCampaigns
    /\ campaing = [c \in Campaigns |-> IF c = 1 THEN "active" ELSE NULL]
    /\ runningCampaigns = [p \in Procs |-> {}]
    /\ loop = [p \in Procs |-> [c \in Campaigns |-> Off]]
    /\ refused = {}
    /\ pausedSince = {}
    /\ env = 0
    /\ timer = [p \in Procs |-> [pc |-> "sweep", pending |-> 0]]
    /\ \E text \in Texts \cup {Nothing, NotAString}, contactData \in Profiles :
          template = [text |-> text, contactData |-> contactData,
                      finalMessage |-> NotYet]
    /\ rest = NoRest

\* Lines 379-385: const finalMessage = renderTemplate(payload.text, {...})
Render ==
    /\ template.finalMessage = NotYet
    /\ template' = [template EXCEPT !.finalMessage =
                        renderTemplate(template.text,
                                       Fields(template.contactData))]
    /\ UNCHANGED <<dispatch, campaing, runningCampaigns, loop, refused,
                   pausedSince, env, timer, rest>>

SpecRender == InitRender /\ [][Render]_vars

----------------------------------------------------------------------------
(* Time passing *)

\* A transaction that has been open for TX_TIMEOUT is aborted by the store
\* ({ timeout: 15000 }): the claim throws into the loop's catch, which
\* leads to the 5 s backoff.
AgedLoop(l) ==
    IF ~InClaim(l) THEN l
    ELSE IF l.now = OldestNow THEN [Off EXCEPT !.pc = "backoff"]
    ELSE [l EXCEPT !.now = @ - 1,
                   !.claimTime = IF l.pc = "update" THEN @ - 1 ELSE @]

AgedRow(r) ==
    [r EXCEPT !.updatedAt = Max(OldestUpdatedAt, @ - 1),
              !.scheduledAt = IF @ = NoSchedule THEN @
                              ELSE At(Max(OldestNow, @[1] - 1))]

Tick ==
    /\ dispatch' = [d \in Ids |-> AgedRow(dispatch[d])]
    /\ loop' = [p \in Procs |-> [c \in Campaigns |-> AgedLoop(loop[p][c])]]
    /\ UNCHANGED <<campaing, runningCampaigns, refused, pausedSince, env, timer, template, rest>>

----------------------------------------------------------------------------
(* Reviver *)

\* const cutoff = new Date(Date.now() - PROCESSING_TTL_MS)
cutoff == getCurrentBrazilTime - PROCESSING_TTL_MS

\* The comparison the other way round: updatedAt: { gt: cutoff }.
StuckNewer(r) == r.status = "processing" /\ r.updatedAt > cutoff

\* The where of the sweep without the test of updatedAt.
StuckWhateverAge(r) == r.status = "processing"

\* where: { status: 'processing', updatedAt: { lt: cutoff } }
Stuck(r) == r.status = "processing" /\ r.updatedAt < cutoff

\* updatedAt is read in two places only, the Reviver's where and the batch
\* re-read of the claim, both on rows in processing, and every write that
\* puts a row in processing stamps it.  So the value a row carries while it
\* is not in processing can never be observed, whether or not the store
\* touches it on a status write; the model keeps it at the floor.
Unstamped(r) == [r EXCEPT !.updatedAt = OldestUpdatedAt]

\* An update whose data leaves the status as it is.
NotRevived(r) == r

\* data: { status: 'pending' }
Revived(r) ==
    IF Stuck(r) THEN Unstamped([r EXCEPT !.status = "pending"]) ELSE r

\* The sweep of one tick of process p, when its updateMany goes through.
\* When the updateMany throws, the catch logs the error and nothing changes:
\* that sweep is a step that leaves every variable as it is.
reviveStuckProcessing(p) ==
    /\ dispatch' = [d \in Ids |-> Revived(dispatch[d])]
    /\ UNCHANGED <<campaing, runningCampaigns, loop, refused, pausedSince, env, template, rest>>
    /\ UNCHANGED <<timer, template, rest>>

----------------------------------------------------------------------------
(* Orchestrator: discovery and launch *)

\* rows.map(r => r.campaignId) of the distinct campaignIds with a ready row
availableCampaigns ==
    {dispatch[d].campaignId :
        d \in {x \in Ids : ReadyAt(dispatch[x], getCurrentBrazilTime)}}

\* The store returns the distinct campaignIds in an order of its own.
Orders(S) ==
    {s \in [1..Cardinality(S) -> S] : \A i, j \in DOMAIN s : s[i] = s[j] => i = j}

\* for (const campaignId of availableCampaigns) { ... } without the test of
\* the ceiling.
RECURSIVE LaunchAll(_, _)
LaunchAll(seq, running) ==
    IF seq = <<>> THEN <<>>
    ELSE IF Head(seq) \in running THEN LaunchAll(Tail(seq), running)
    ELSE <<Head(seq)>> \o LaunchAll(Tail(seq), running \cup {Head(seq)})

\* for (const campaignId of availableCampaigns) { ... } without the test of
\* runningCampaigns.has(campaignId).
RECURSIVE LaunchAgain(_, _)
LaunchAgain(seq, running) ==
    IF seq = <<>> THEN <<>>
    ELSE IF /\ MAX_CAMPAIGN_CONCURRENCY > 0
            /\ Cardinality(running) >= MAX_CAMPAIGN_CONCURRENCY
         THEN <<>>
    ELSE <<Head(seq)>> \o LaunchAgain(Tail(seq), running \cup {Head(seq)})

\* for (const campaignId of availableCampaigns) { ... }: the campaignIds
\* processCampaign is called for, one after the other, `running` being
\* runningCampaigns as the iteration finds it.
RECURSIVE Launch(_, _)
Launch(seq, running) ==
    IF seq = <<>> THEN <<>>
    ELSE IF Head(seq) \in running THEN Launch(Tail(seq), running)
    ELSE IF /\ MAX_CAMPAIGN_CONCURRENCY > 0
            /\ Cardinality(running) >= MAX_CAMPAIGN_CONCURRENCY
         THEN <<>>
    ELSE <<Head(seq)>> \o Launch(Tail(seq), running \cup {Head(seq)})

Spawned == [Off EXCEPT !.pc = "init"]

\* Lines 465-541 of one tick of process p: discovery and launch, when the
\* discovery query goes through.  When it throws, the catch logs the error
\* and nothing changes.  The timer re-arms orchestrate() whatever happened
\* (finally: setTimeout), so a process takes these steps again and again, a
\* sweep before each discovery; a tick whose sweep or whose discovery threw
\* is a tick that took only the other step.
orchestrate(p) ==
    /\ \E order \in Orders(availableCampaigns) :
          LET launched == Launch(order, runningCampaigns[p])
              started == {launched[n] : n \in DOMAIN launched}
          IN  /\ runningCampaigns' =
                    [runningCampaigns EXCEPT ![p] = @ \cup started]
              /\ loop' = [loop EXCEPT ![p] =
                    [c \in Campaigns |->
                        IF c \in started THEN Spawned ELSE loop[p][c]]]
    /\ UNCHANGED <<dispatch, campaing, refused, pausedSince, env, timer, template, rest>>

----------------------------------------------------------------------------
(* The timer of the Orchestrator *)

\* The finally of lines 544-547 with the setTimeout moved to the end of the
\* try: a tick whose discovery threw arms nothing.
ArmedIfDone(t, done) ==
    [pc |-> "none", pending |-> IF done THEN t.pending + 1 ELSE t.pending]

\* finally { setTimeout(orchestrate, ORCHESTRATOR_TICK_MS) }: whether or not
\* the try went through (`done`), one more setTimeout is pending and the
\* call of orchestrate() is over.
Armed(t, done) == [pc |-> "none", pending |-> t.pending + 1]

\* Line 463 with a reviveStuckProcessing() that lets the error of its
\* updateMany through: the call of orchestrate() rejects before its try.
TickSweepThrows(p) ==
    /\ timer[p].pc = "sweep"
    /\ \/ /\ dispatch' = [d \in Ids |-> Revived(dispatch[d])]
          /\ timer' = [timer EXCEPT ![p].pc = "discover"]
       \/ /\ UNCHANGED dispatch
          /\ timer' = [timer EXCEPT ![p].pc = "none"]
    /\ UNCHANGED <<campaing, runningCampaigns, loop, refused, pausedSince, env, template, rest>>

\* Line 463 of a call of orchestrate(): await reviveStuckProcessing(), which
\* catches what its updateMany throws (lines 110-112) and so always
\* resolves; the call goes on to the try of line 465.
TickSweep(p) ==
    /\ timer[p].pc = "sweep"
    /\ \/ dispatch' = [d \in Ids |-> Revived(dispatch[d])]
       \/ UNCHANGED dispatch                  \* catch (err): log
    /\ timer' = [timer EXCEPT ![p].pc = "discover"]
    /\ UNCHANGED <<campaing, runningCampaigns, loop, refused, pausedSince, env, template, rest>>

\* Lines 465-547 of a call of orchestrate(): discovery and launch, or the
\* catch when the discovery throws, and the finally.  No loop that is
\* launched is awaited (processCampaign(...).catch(...).finally(...)).
TickDiscover(p) ==
    /\ timer[p].pc = "discover"
    /\ \/ /\ \E order \in Orders(availableCampaigns) :
                LET launched == Launch(order, runningCampaigns[p])
                    started == {launched[n] : n \in DOMAIN launched}
                IN  /\ runningCampaigns' =
                          [runningCampaigns EXCEPT ![p] = @ \cup started]
                    /\ loop' = [loop EXCEPT ![p] =
                          [c \in Campaigns |->
                              IF c \in started THEN Spawned ELSE loop[p][c]]]
          /\ timer' = [timer EXCEPT ![p] = Armed(@, TRUE)]
       \/ /\ UNCHANGED <<runningCampaigns, loop>>   \* catch (err): log
          /\ timer' = [timer EXCEPT ![p] = Armed(@, FALSE)]
    /\ UNCHANGED <<dispatch, campaing, refused, pausedSince, env, template, rest>>

\* ORCHESTRATOR_TICK_MS later a pending setTimeout calls orchestrate().
TimerFires(p) ==
    /\ timer[p].pending > 0
    /\ timer' = [timer EXCEPT ![p] =
                    [pc |-> "sweep", pending |-> timer[p].pending - 1]]
    /\ UNCHANGED <<dispatch, campaing, runningCampaigns, loop, refused,
                   pausedSince, env, template, rest>>

----------------------------------------------------------------------------
(* Claim Engine: claimNextContactBatch, one interactive transaction *)

\* orderBy: [{contact: 'asc'}, {messageOrder: 'asc'}, {createdAt: 'asc'}]
\* orderBy: [{messageOrder: 'asc'}, {contact: 'asc'}, {createdAt: 'asc'}]
BeforeByMessageOrder(r, q) ==
    \/ r.messageOrder < q.messageOrder
    \/ r.messageOrder = q.messageOrder /\ r.contact < q.contact
    \/ /\ r.messageOrder = q.messageOrder
       /\ r.contact = q.contact
       /\ r.createdAt < q.createdAt

Before(r, q) ==
    \/ r.contact < q.contact
    \/ r.contact = q.contact /\ r.messageOrder < q.messageOrder
    \/ /\ r.contact = q.contact
       /\ r.messageOrder = q.messageOrder
       /\ r.createdAt < q.createdAt

\* findFirst without the OR on scheduledAt in its where.
findFirstPending(c, now) ==
    LET pending == {d \in Ids : /\ dispatch[d].campaignId = c
                                /\ dispatch[d].status = "pending"}
    IN  {d \in pending : \A e \in pending : ~Before(dispatch[e], dispatch[d])}

\* tx.campaignDispatch.findFirst: the ready rows of the campaign that no
\* other ready row precedes (one row, unless the three keys tie).
findFirst(c, now) ==
    LET ready == {d \in Ids : /\ dispatch[d].campaignId = c
                              /\ ReadyAt(dispatch[d], now)}
    IN  {d \in ready : \A e \in ready : ~Before(dispatch[e], dispatch[d])}

\* The where of the updateMany without contact and sessionName.
claimWhereCampaign(c, first, now) ==
    {d \in Ids : /\ dispatch[d].campaignId = c
                 /\ ReadyAt(dispatch[d], now)}

\* The where of the updateMany without sessionName.
claimWhereAnySession(c, first, now) ==
    {d \in Ids : /\ dispatch[d].campaignId = c
                 /\ dispatch[d].contact = first.contact
                 /\ ReadyAt(dispatch[d], now)}

\* The rows the updateMany of the claim matches.
claimWhere(c, first, now) ==
    {d \in Ids : /\ dispatch[d].campaignId = c
                 /\ dispatch[d].contact = first.contact
                 /\ dispatch[d].sessionName = first.sessionName
                 /\ ReadyAt(dispatch[d], now)}

\* data: { status: 'processing', updatedAt: getCurrentBrazilTime() }, the
\* argument being evaluated right after claimTime, before the statement runs.
Claimed(r, stamp) == [r EXCEPT !.status = "processing", !.updatedAt = stamp]

\* tx.campaignDispatch.findMany({ where: {..., status: 'processing',
\* updatedAt: { gte: claimTime } } }) on the table as the update left it.
batchWhere(table, c, first, claimTime, earlier) ==
    {d \in DOMAIN table : /\ table[d].campaignId = c
                          /\ table[d].contact = first.contact
                          /\ table[d].sessionName = first.sessionName
                          /\ table[d].status = "processing"
                          /\ table[d].updatedAt >= claimTime
                          /\ d \notin earlier}

\* The batch in the order the rows were created.
RECURSIVE OrderByCreatedAt(_, _)
OrderByCreatedAt(table, S) ==
    IF S = {} THEN <<>>
    ELSE LET d == CHOOSE x \in S :
                    \A y \in S : table[x].createdAt <= table[y].createdAt
         IN  <<d>> \o OrderByCreatedAt(table, S \ {d})

\* orderBy: { messageOrder: 'asc' }
RECURSIVE OrderByMessageOrder(_, _)
OrderByMessageOrder(table, S) ==
    IF S = {} THEN <<>>
    ELSE LET d == CHOOSE x \in S :
                    \A y \in S : table[x].messageOrder <= table[y].messageOrder
         IN  <<d>> \o OrderByMessageOrder(table, S \ {d})

\* processCampaign returns; .finally(() => runningCampaigns.delete(campaignId))
\* The return of processCampaign without the delete of the finally.
ExitStaysListed(p, c) ==
    /\ loop' = [loop EXCEPT ![p][c] = Off]
    /\ UNCHANGED runningCampaigns

Exit(p, c) ==
    /\ loop' = [loop EXCEPT ![p][c] = Off]
    /\ runningCampaigns' = [runningCampaigns EXCEPT ![p] = @ \ {c}]

\* catch (loopErr): log, then the 5 s sleep
Catch(p, c) ==
    /\ loop' = [loop EXCEPT ![p][c] = [Off EXCEPT !.pc = "backoff"]]
    /\ UNCHANGED runningCampaigns

\* The claim with a null result treated as an error of the iteration: the
\* loop sleeps and tries again.
ClaimFindRetries(p, c) ==
    LET l == loop[p][c] IN
    /\ l.pc = "find"
    /\ \/ /\ findFirst(c, l.now) = {}
          /\ Catch(p, c)
       \/ /\ \E first \in findFirst(c, l.now) :
                loop' = [loop EXCEPT ![p][c] =
                    [l EXCEPT !.pc = "update",
                              !.first = [contact |-> dispatch[first].contact,
                                         sessionName |->
                                             dispatch[first].sessionName],
                              !.claimTime = getCurrentBrazilTime,
                              !.earlier =
                                  {d \in Ids :
                                      /\ dispatch[d].status = "processing"
                                      /\ dispatch[d].updatedAt =
                                             getCurrentBrazilTime}]]
          /\ UNCHANGED runningCampaigns
       \/ Catch(p, c)
    /\ UNCHANGED <<dispatch, campaing, refused, pausedSince, env, timer, template, rest>>

\* Lines 133-169: findFirst, the null return, claimTime.
ClaimFind(p, c) ==
    LET l == loop[p][c] IN
    /\ l.pc = "find"
    /\ \/ /\ findFirst(c, l.now) = {}
          /\ Exit(p, c)                       \* return null; the loop returns
       \/ /\ \E first \in findFirst(c, l.now) :
                loop' = [loop EXCEPT ![p][c] =
                    [l EXCEPT !.pc = "update",
                              !.first = [contact |-> dispatch[first].contact,
                                         sessionName |->
                                             dispatch[first].sessionName],
                              !.claimTime = getCurrentBrazilTime,
                              !.earlier =
                                  {d \in Ids :
                                      /\ dispatch[d].status = "processing"
                                      /\ dispatch[d].updatedAt =
                                             getCurrentBrazilTime}]]
          /\ UNCHANGED runningCampaigns
       \/ Catch(p, c)                         \* the store throws
    /\ UNCHANGED <<dispatch, campaing, refused, pausedSince, env, timer, template, rest>>

\* A transaction that fails after its update and keeps what it wrote.
NotRolledBack(before, after) == after

\* prisma.$transaction: when the callback throws, or the timeout of line 233
\* passes, what the transaction wrote is undone.
RolledBack(before, after) == before

\* Lines 171-231 and 299-392: the conditional update, the re-read of the
\* batch, commit; and, no await lying between the claim's return and the
\* first axios.post, the call for the first dispatch of the batch.
ClaimUpdate(p, c) ==
    LET l == loop[p][c]
        hit == claimWhere(c, l.first, l.now)
        table == [d \in Ids |-> IF d \in hit
                                THEN Claimed(dispatch[d], l.claimTime)
                                ELSE dispatch[d]]
        batch == OrderByMessageOrder(table,
                                     batchWhere(table, c, l.first, l.claimTime,
                                                l.earlier))
    IN
    /\ l.pc = "update"
    /\ \/ /\ hit = {}                         \* upd.count === 0: return null
          /\ Exit(p, c)
          /\ UNCHANGED dispatch
       \/ /\ hit # {}
          /\ dispatch' = table
          /\ IF batch = <<>>                  \* !claim.batch?.length
             THEN Exit(p, c)
             ELSE /\ loop' = [loop EXCEPT ![p][c] =
                        [Off EXCEPT !.pc = "gateway", !.batch = batch,
                                    !.i = 1]]
                  /\ UNCHANGED runningCampaigns
       \/ /\ Catch(p, c)                      \* the store throws: rollback
          /\ dispatch' = RolledBack(dispatch, table)
    /\ UNCHANGED <<campaing, refused, pausedSince, env, timer, template, rest>>

----------------------------------------------------------------------------
(* Campaign Loop: processCampaign *)

\* Lines 245-259: the read before the loop; an error or no row ends the call.
LoadInitial(p, c) ==
    /\ loop[p][c].pc = "init"
    /\ \/ /\ campaing[c] # NULL
          /\ loop' = [loop EXCEPT ![p][c].pc = "load"]
          /\ UNCHANGED runningCampaigns
       \/ /\ campaing[c] = NULL
          /\ Exit(p, c)
       \/ Exit(p, c)                          \* catch (err): return
    /\ UNCHANGED <<dispatch, campaing, refused, pausedSince, env, timer, template, rest>>

\* The re-read without the test of !campaign (campaign?.status): a missing
\* row is not paused, and the iteration goes on to the claim.
LoadConfigAnyRow(p, c) ==
    /\ loop[p][c].pc = "load"
    /\ \/ /\ campaing[c] = "paused"
          /\ loop' = [loop EXCEPT ![p][c].pc = "paused"]
          /\ UNCHANGED runningCampaigns
       \/ /\ campaing[c] # "paused"
          /\ loop' = [loop EXCEPT ![p][c] =
                [Off EXCEPT !.pc = "find", !.now = getCurrentBrazilTime]]
          /\ UNCHANGED runningCampaigns
       \/ Catch(p, c)
    /\ UNCHANGED <<dispatch, campaing, refused, pausedSince, env, timer, template, rest>>

\* The re-read without the test of campaign.status === 'paused'.
LoadConfigNoPause(p, c) ==
    /\ loop[p][c].pc = "load"
    /\ \/ /\ campaing[c] = NULL
          /\ Exit(p, c)
       \/ /\ campaing[c] # NULL
          /\ loop' = [loop EXCEPT ![p][c] =
                [Off EXCEPT !.pc = "find", !.now = getCurrentBrazilTime]]
          /\ UNCHANGED runningCampaigns
       \/ Catch(p, c)
    /\ UNCHANGED <<dispatch, campaing, refused, pausedSince, env, timer, template, rest>>

\* Lines 269-299 and 127: the re-read, the pause test, and the `now` of the
\* claim, which is taken in the same turn as the transaction is opened.
LoadConfig(p, c) ==
    /\ loop[p][c].pc = "load"
    /\ \/ /\ campaing[c] = NULL
          /\ Exit(p, c)
       \/ /\ campaing[c] = "paused"
          /\ loop' = [loop EXCEPT ![p][c].pc = "paused"]
          /\ UNCHANGED runningCampaigns
       \/ /\ campaing[c] \notin {NULL, "paused"}
          /\ loop' = [loop EXCEPT ![p][c] =
                [Off EXCEPT !.pc = "find", !.now = getCurrentBrazilTime]]
          /\ UNCHANGED runningCampaigns
       \/ Catch(p, c)                         \* the read throws
    /\ UNCHANGED <<dispatch, campaing, refused, pausedSince, env, timer, template, rest>>

\* The branch of the pause with a return in the place of the continue.
PausedExit(p, c) ==
    /\ loop[p][c].pc = "paused"
    /\ Exit(p, c)
    /\ UNCHANGED <<dispatch, campaing, refused, pausedSince, env, timer, template, rest>>

\* await new Promise((r) => setTimeout(r, 10000)); continue
PausedWait(p, c) ==
    /\ loop[p][c].pc = "paused"
    /\ loop' = [loop EXCEPT ![p][c].pc = "load"]
    /\ UNCHANGED <<dispatch, campaing, runningCampaigns, refused, pausedSince, env, timer, template, rest>>

\* await new Promise((r) => setTimeout(r, 5000)), then the next iteration
Backoff(p, c) ==
    /\ loop[p][c].pc = "backoff"
    /\ loop' = [loop EXCEPT ![p][c].pc = "load"]
    /\ UNCHANGED <<dispatch, campaing, runningCampaigns, refused, pausedSince, env, timer, template, rest>>

\* What the gateway call of one message can come to: a body with a truthy
\* status, a body without it and with or without a message, or axios throwing.
GatewayOutcomes == {"ok", "refused_message", "refused", "throws"}

\* err.message in the catch of the send
ErrorText(outcome, sentWritten) ==
    CASE outcome = "ok" /\ ~sentWritten -> "store error"
      [] outcome = "refused_message" -> "gateway message"
      [] outcome = "refused" -> "Falha no envio"
      [] OTHER -> "axios error"

\* Lines 394-420: the row after the status writes.  sentWritten: the update
\* to sent went through; failedWritten: the update to failed went through.
Recorded(r, outcome, sentWritten, failedWritten) ==
    IF outcome = "ok" /\ sentWritten
    THEN Unstamped([r EXCEPT !.status = "sent", !.error = NULL])
    ELSE IF failedWritten
    THEN Unstamped([r EXCEPT !.status = "failed",
                             !.error = ErrorText(outcome, sentWritten)])
    ELSE r

\* The error of a send reaching the catch of the loop.
Abandon(l) == [Off EXCEPT !.pc = "backoff"]

\* The for-of over batch with the sends not awaited: the post of the next
\* dispatch is issued as soon as the one before has been.
AdvancePipelined(l) ==
    IF l.i < Len(l.batch) THEN [l EXCEPT !.pc = "gateway", !.i = @ + 1]
    ELSE [Off EXCEPT !.pc = "pace"]

\* The for-of over batch: the next dispatch, or the pacing after the last.
Advance(l) ==
    IF l.i < Len(l.batch) THEN [l EXCEPT !.pc = "send", !.i = @ + 1]
    ELSE [Off EXCEPT !.pc = "pace"]

\* Lines 422-432 and 335-392: the delay is over, the axios.post of the
\* next dispatch batch[i] is issued.
SendCall(p, c) ==
    /\ loop[p][c].pc = "send"
    /\ loop' = [loop EXCEPT ![p][c].pc = "gateway"]
    /\ UNCHANGED <<dispatch, campaing, runningCampaigns, refused, pausedSince, env, timer, template, rest>>

\* Lines 394-432: the answer `outcome`, the status write(s), the delay.
Answer(p, c, outcome) ==
    LET l == loop[p][c]
        d == l.batch[l.i]
    IN
    /\ l.pc = "gateway"
    /\ \E row \in {Recorded(dispatch[d], outcome, sentWritten, failedWritten) :
                      sentWritten \in BOOLEAN, failedWritten \in BOOLEAN} :
          dispatch' = [dispatch EXCEPT ![d] = row]
    /\ loop' = [loop EXCEPT ![p][c] = Advance(l)]
    /\ UNCHANGED <<campaing, runningCampaigns>>

SendResult(p, c) ==
    /\ \E outcome \in GatewayOutcomes : Answer(p, c, outcome)
    /\ UNCHANGED <<refused, pausedSince, env, timer, template, rest>>

\* The same step, the gateway keeping note of the messages it refused.
SendResultNoted(p, c) ==
    \E outcome \in GatewayOutcomes :
        /\ Answer(p, c, outcome)
        /\ refused' = IF outcome = "ok" THEN refused
                      ELSE refused \cup {loop[p][c].batch[loop[p][c].i]}
        /\ UNCHANGED <<pausedSince, env, timer, template, rest>>

\* Lines 434-443: the contactDelay sleep, then the next iteration.
Pace(p, c) ==
    /\ loop[p][c].pc = "pace"
    /\ loop' = [loop EXCEPT ![p][c].pc = "load"]
    /\ UNCHANGED <<dispatch, campaing, runningCampaigns, refused, pausedSince, env, timer, template, rest>>

----------------------------------------------------------------------------
(* The process and the operator *)

\* The process dies and is started again: the module is loaded anew
\* (runningCampaigns = new Set(), no loop) and BOOT calls orchestrate().
Restart(p) ==
    /\ runningCampaigns' = [runningCampaigns EXCEPT ![p] = {}]
    /\ loop' = [loop EXCEPT ![p] = [c \in Campaigns |-> Off]]
    /\ UNCHANGED <<dispatch, campaing, refused, pausedSince, env, timer, template, rest>>

\* status of a campaign row: active, paused, and one of the further values.
CampaignStatuses == {"active", "paused", "finished"}

\* The operator pauses or resumes a campaign, sets another status, or
\* removes its row.
Write(c, st) ==
    /\ campaing[c] # NULL
    /\ st # campaing[c]
    /\ campaing' = [campaing EXCEPT ![c] = st]
    /\ UNCHANGED <<dispatch, runningCampaigns, loop, refused, env, timer, template, rest>>

SetStatus(c) ==
    /\ \E st \in CampaignStatuses \cup {NULL} : Write(c, st)
    /\ UNCHANGED <<pausedSince, env, timer, template, rest>>

\* The same step, the operator keeping note of the campaigns on pause.
SetStatusNoted(c) ==
    \E st \in CampaignStatuses \cup {NULL} :
        /\ Write(c, st)
        /\ pausedSince' = CASE st = "paused" -> pausedSince \cup {c}
                            [] st = "active" -> pausedSince \ {c}
                            [] OTHER -> pausedSince

Terminal(r) == r.status \in {"sent", "failed"}

\* The steps of the processes P over the store, the campaign not on pause.
Step(P) ==
    \/ Tick
    \/ \E p \in P : reviveStuckProcessing(p)
    \/ \E p \in P : orchestrate(p)
    \/ \E p \in P, c \in Campaigns : LoadInitial(p, c)
    \/ \E p \in P, c \in Campaigns : LoadConfig(p, c)
    \/ \E p \in P, c \in Campaigns : Backoff(p, c)
    \/ \E p \in P, c \in Campaigns : ClaimFind(p, c)
    \/ \E p \in P, c \in Campaigns : ClaimUpdate(p, c)
    \/ \E p \in P, c \in Campaigns : SendCall(p, c)
    \/ \E p \in P, c \in Campaigns : Pace(p, c)
    \/ \E p \in P : Restart(p)

Next ==
    \/ Step(Procs)
    \/ \E p \in Procs, c \in Campaigns : PausedWait(p, c)
    \/ \E p \in Procs, c \in Campaigns : SendResult(p, c)
    \/ \E c \in Campaigns : SetStatus(c)

\* Two worker processes, the operator, store errors and restarts.
Spec == Init /\ [][Next]_vars

\* One worker process, the gateway noting what it refused and the operator
\* what is on pause.
NextNoted ==
    \/ Step({1})
    \/ \E c \in Campaigns : PausedWait(1, c)
    \/ \E c \in Campaigns : SendResultNoted(1, c)
    \/ \E c \in Campaigns : SetStatusNoted(c)

SpecNoted == Init /\ [][NextNoted]_vars

\* One worker process, store errors and restarts, and a campaign that the
\* operator leaves as it is: there and active.
NextLive ==
    \/ Step({1})
    \/ \E c \in Campaigns : SendResult(1, c)

\* A step of the loop of campaign c that did not end in the catch.
Through(p, c) == loop'[p][c].pc # "backoff"

\* The write of the outcome of a send went through.
Written(p, c) ==
    Terminal(dispatch'[loop[p][c].batch[loop[p][c].i]])

\* Time passes; the timer of lines 544-547 re-arms the tick for ever; the
\* sleeps of a loop end; faults of the store and of the gateway are
\* transient, so that a step which is tried again and again goes through in
\* the end; the first read of a loop ends one way or the other.  Nothing is
\* asked of Restart.
Fairness ==
    /\ WF_vars(Tick)
    /\ WF_vars(reviveStuckProcessing(1))
    /\ WF_vars(orchestrate(1))
    /\ \A c \in Campaigns :
          /\ WF_vars(Backoff(1, c))
          /\ WF_vars(SendCall(1, c))
          /\ WF_vars(Pace(1, c))
          /\ WF_vars(LoadInitial(1, c))
          /\ SF_vars(LoadInitial(1, c) /\ loop'[1][c].pc = "load")
          /\ SF_vars(LoadConfig(1, c) /\ Through(1, c))
          /\ SF_vars(ClaimFind(1, c) /\ Through(1, c))
          /\ SF_vars(ClaimUpdate(1, c) /\ Through(1, c))
          /\ SF_vars(SendResult(1, c) /\ Written(1, c))

SpecLive == Init /\ [][NextLive]_vars /\ Fairness

\* One worker process with a ceiling and two campaigns with work that the
\* operator leaves active.
SpecCeiling == InitCeiling /\ [][NextLive]_vars

\* One worker process with a ceiling, two campaigns with work, the operator.
NextCeiling ==
    \/ Step({1})
    \/ \E c \in Campaigns : PausedWait(1, c)
    \/ \E c \in Campaigns : SendResult(1, c)
    \/ \E c \in Campaigns : SetStatus(c)

\* The same under the fairness above; the paused wait ends as well.
SpecCeilingLive ==
    /\ InitCeiling
    /\ [][NextCeiling]_vars
    /\ Fairness
    /\ \A c \in Campaigns : WF_vars(PausedWait(1, c))

\* Two worker processes that stay up, store errors, and a campaign that the
\* operator leaves as it is: there and active.
NextRace ==
    \/ Tick
    \/ \E p \in Procs : reviveStuckProcessing(p)
    \/ \E p \in Procs : orchestrate(p)
    \/ \E p \in Procs, c \in Campaigns : LoadInitial(p, c)
    \/ \E p \in Procs, c \in Campaigns : LoadConfig(p, c)
    \/ \E p \in Procs, c \in Campaigns : Backoff(p, c)
    \/ \E p \in Procs, c \in Campaigns : ClaimFind(p, c)
    \/ \E p \in Procs, c \in Campaigns : ClaimUpdate(p, c)
    \/ \E p \in Procs, c \in Campaigns : SendCall(p, c)
    \/ \E p \in Procs, c \in Campaigns : SendResult(p, c)
    \/ \E p \in Procs, c \in Campaigns : Pace(p, c)

\* The campaigns that have Dispatches.
WithWork ==
    {t[d].campaignId : t \in TablesOneGroup, d \in 1..2}

\* What Fairness asks of process 1, asked of process p for the campaigns
\* that have work.
FairProcess(p) ==
    /\ WF_vars(reviveStuckProcessing(p))
    /\ WF_vars(orchestrate(p))
    /\ \A c \in WithWork :
          /\ WF_vars(Backoff(p, c))
          /\ WF_vars(SendCall(p, c))
          /\ WF_vars(Pace(p, c))
          /\ WF_vars(LoadInitial(p, c))
          /\ SF_vars(LoadInitial(p, c) /\ loop'[p][c].pc = "load")
          /\ SF_vars(LoadConfig(p, c) /\ Through(p, c))
          /\ SF_vars(ClaimFind(p, c) /\ Through(p, c))
          /\ SF_vars(ClaimUpdate(p, c) /\ Through(p, c))
          /\ SF_vars(SendResult(p, c) /\ Written(p, c))

\* Both messages of the group are due from the start.
InitRace ==
    /\ Init
    /\ \A d \in Ids : dispatch[d].scheduledAt = NoSchedule

SpecRace ==
    /\ InitRace
    /\ [][NextRace]_vars
    /\ WF_vars(Tick)
    /\ \A p \in Procs : FairProcess(p)

\* Two worker processes that stay up, a campaign of two contacts with one
\* message each: no batch has a second message to go on with.
NextContacts ==
    \/ Tick
    \/ \E p \in Procs : reviveStuckProcessing(p)
    \/ \E p \in Procs : orchestrate(p)
    \/ \E p \in Procs, c \in Campaigns : LoadInitial(p, c)
    \/ \E p \in Procs, c \in Campaigns : LoadConfig(p, c)
    \/ \E p \in Procs, c \in Campaigns : Backoff(p, c)
    \/ \E p \in Procs, c \in Campaigns : ClaimFind(p, c)
    \/ \E p \in Procs, c \in Campaigns : ClaimUpdate(p, c)
    \/ \E p \in Procs, c \in Campaigns : SendResult(p, c)
    \/ \E p \in Procs, c \in Campaigns : Pace(p, c)

SpecContacts == InitContacts /\ [][NextContacts]_vars

\* One worker process, store errors and restarts, a campaign of several
\* groups.
SpecGroups == InitGroups /\ [][NextLive]_vars

\* One worker process whose ticks are followed call by call: the sweep, the
\* discovery and the setTimeout of each call of orchestrate(), with store
\* errors in both, the loops it launches, and the operator.
NextTimer ==
    \/ Tick
    \/ TickSweep(1)
    \/ TickDiscover(1)
    \/ TimerFires(1)
    \/ \E c \in Campaigns : LoadInitial(1, c)
    \/ \E c \in Campaigns : LoadConfig(1, c)
    \/ \E c \in Campaigns : PausedWait(1, c)
    \/ \E c \in Campaigns : Backoff(1, c)
    \/ \E c \in Campaigns : ClaimFind(1, c)
    \/ \E c \in Campaigns : ClaimUpdate(1, c)
    \/ \E c \in Campaigns : SendCall(1, c)
    \/ \E c \in Campaigns : SendResult(1, c)
    \/ \E c \in Campaigns : Pace(1, c)
    \/ \E c \in Campaigns : SetStatus(c)

\* The timer fires when it is due, and the store answers the sweep and the
\* discovery, with a result or with an error.  Nothing is asked of a loop.
SpecTimer ==
    /\ Init
    /\ [][NextTimer]_vars
    /\ WF_vars(TimerFires(1))
    /\ WF_vars(TickSweep(1))
    /\ WF_vars(TickDiscover(1))

----------------------------------------------------------------------------
(* The REST example: the in-memory campaign runner *)

\* The variables of the worker, which the REST example does not touch.
Worker ==
    <<dispatch, campaing, runningCampaigns, loop, refused, pausedSince, env,
      timer, template>>

\* A template of the request body: its messages array with its length, or a
\* template whose messages cannot be iterated.
Templates ==
    {[iterable |-> TRUE, messages |-> m] : m \in 0..MaxMessages}
        \cup {[iterable |-> FALSE, messages |-> 0]}

TemplateLists == UNION {[1..n -> Templates] : n \in 1..MaxTemplates}

\* Lines 1774-1784: one more processed "contact" for every call.
updateCampaignProgress(r) ==
    IF r.campaignQueue.status = "none" THEN r
    ELSE [r EXCEPT !.campaignQueue.processedContacts = @ + 1]

\* Lines 1862-1871: after the loop over the contacts, left by its end or by
\* the break.
Finalize(r) ==
    [r EXCEPT !.campaignQueue.status = IF @ = "none" THEN @ ELSE "completed",
              !.activeCampaigns = FALSE,
              !.background.pc = "done"]

\* Lines 1831-1860 and 1752-1768: the code that runs without a break from
\* the top of `for (const message of template.messages)` of template t of
\* contact i, `results` messages of it done, to the next await that waits for
\* a timer or for the client: the 5 s between two messages, the send of a
\* message, the delay between two contacts; or to the end of the call.
RECURSIVE Proceed(_)
Proceed(r) ==
    LET f == r.background IN
    IF f.t > Len(f.templates)
    THEN IF f.i < f.contacts
         THEN [r EXCEPT !.background.pc = "delay"]
         ELSE Finalize(r)
    ELSE IF ~f.templates[f.t].iterable      \* the catch of lines 1841-1851
    THEN Proceed([updateCampaignProgress(r) EXCEPT !.background.t = @ + 1,
                                                   !.background.results = 0])
    ELSE IF f.results >= f.templates[f.t].messages
    THEN Proceed([r EXCEPT !.background.t = @ + 1, !.background.results = 0])
    ELSE [r EXCEPT !.background.pc =
                       IF f.results > 0 THEN "pause" ELSE "message"]

\* POST /:session/dispatch-campaign, lines 1885-1917: the call of
\* processCampaignInBackground, which is not awaited, up to its
\* await getOrCreateSession(sessionName).
DispatchCampaign ==
    /\ rest.background.pc = "idle"
    /\ \E n \in 1..MaxContacts, tpls \in TemplateLists :
          rest' = [rest EXCEPT !.background =
                      [pc |-> "session", contacts |-> n, templates |-> tpls,
                       i |-> 0, t |-> 0, results |-> 0]]
    /\ UNCHANGED Worker

\* Lines 1799-1831: the client is there; campaignQueue.set,
\* activeCampaigns.add, the first contact.
SessionReady ==
    /\ rest.background.pc = "session"
    /\ rest' = Proceed([rest EXCEPT
                   !.campaignQueue =
                       [status |-> "running",
                        totalContacts |-> rest.background.contacts,
                        processedContacts |-> 0],
                   !.activeCampaigns = TRUE,
                   !.background.i = 1,
                   !.background.t = 1])
    /\ UNCHANGED Worker

\* Lines 1799-1802 and 1872-1881: no client; the catch finds no campaignData.
SessionFailed ==
    /\ rest.background.pc = "session"
    /\ rest' = [rest EXCEPT !.activeCampaigns = FALSE,
                            !.background.pc = "done"]
    /\ UNCHANGED Worker

\* Lines 1754-1756: the 5 s before a message that is not the first of its
\* template are over.
PauseOver ==
    /\ rest.background.pc = "pause"
    /\ rest' = [rest EXCEPT !.background.pc = "message"]
    /\ UNCHANGED Worker

\* Lines 1758-1767: processTemplateMessage has resolved (it catches its own
\* errors); results.push(result), updateCampaignProgress.
MessageDone ==
    /\ rest.background.pc = "message"
    /\ rest' = Proceed([updateCampaignProgress(rest) EXCEPT
                   !.background.results = @ + 1])
    /\ UNCHANGED Worker

\* Lines 1854-1860 and 1817-1824: the delay between two contacts is over;
\* the next contact, unless the campaign is not in activeCampaigns any more.
DelayOver ==
    /\ rest.background.pc = "delay"
    /\ rest' = IF ~rest.activeCampaigns
               THEN Finalize(rest)
               ELSE Proceed([rest EXCEPT !.background.i = @ + 1,
                                         !.background.t = 1,
                                         !.background.results = 0])
    /\ UNCHANGED Worker

\* DELETE /campaign/:campaignId/cancel, lines 1976-1999, when it does not
\* answer 404.
CancelCampaign ==
    /\ rest.activeCampaigns
    /\ rest' = [rest EXCEPT
                   !.activeCampaigns = FALSE,
                   !.campaignQueue.status =
                       IF @ = "none" THEN @ ELSE "cancelled"]
    /\ UNCHANGED Worker

\* GET /campaign/:campaignId/status, lines 1953-1958: Math.round of the
\* percentage, halves going up.
progress ==
    LET q == rest.campaignQueue IN
    IF q.totalContacts > 0
    THEN (200 * q.processedContacts + q.totalContacts) \div (2 * q.totalContacts)
    ELSE 0

\* The worker at rest and the server of the REST example just started.
InitRest ==
    /\ dispatch \in TablesTwoCampaigns
    /\ campaing = [c \in Campaigns |-> IF c = 1 THEN "active" ELSE NULL]
    /\ runningCampaigns = [p \in Procs |-> {}]
    /\ loop = [p \in Procs |-> [c \in Campaigns |-> Off]]
    /\ refused = {}
    /\ pausedSince = {}
    /\ env = 0
    /\ timer = [p \in Procs |-> [pc |-> "sweep", pending |-> 0]]
    /\ template = NoTemplate
    /\ rest = NoRest

NextRunner ==
    \/ DispatchCampaign
    \/ SessionReady
    \/ SessionFailed
    \/ PauseOver
    \/ MessageDone
    \/ DelayOver
    \/ CancelCampaign

\* One campaign dispatched to the REST example, with any contacts and
\* templates, and the requests that cancel it.
SpecRunner == InitRest /\ [][NextRunner]_vars

----------------------------------------------------------------------------
(* The REST example: the clients of one session *)

\* The calls of createSessionInBackground and of getOrCreateSession that
\* have not come to their end.
InFlightCreations == {n \in 1..MaxCreations : rest.creations[n].pc # "off"}

\* The slot a new call is followed in.
FreeSlot ==
    CHOOSE n \in 1..MaxCreations :
        /\ rest.creations[n].pc = "off"
        /\ \A m \in 1..(n - 1) : rest.creations[m].pc # "off"

\* Lines 220-257: createSessionInBackground(sessionName), not awaited, up to
\* its await puppeteer.executablePath().
StartInBackground(r) ==
    [r EXCEPT !.sessionStatus = "creating",
              !.creations[FreeSlot] =
                  [pc |-> "path", fn |-> "createSessionInBackground"]]

\* POST /:session/createsession, lines 807-857, when there is no client in
\* instancias and the status is not 'creating'.
PostCreateSession ==
    /\ InFlightCreations # 1..MaxCreations
    /\ rest.instancias = NoClient
    /\ rest.sessionStatus # "creating"
    /\ rest' = StartInBackground(rest)
    /\ UNCHANGED Worker

\* GET /:session/getconnectionstatus, lines 706-795, when it comes to its
\* else branch: the status is not 'creating', no QR code is answered from
\* the cache, and there is no client in instancias.
GetConnectionStatus ==
    /\ InFlightCreations # 1..MaxCreations
    /\ rest.sessionStatus # "creating"
    /\ ~(rest.sessionStatus = "qr_code" /\ rest.qrcodesTemp)
    /\ rest.instancias = NoClient
    /\ rest' = StartInBackground(rest)
    /\ UNCHANGED Worker

\* Lines 431-458: getOrCreateSession(sessionName), called by an endpoint or
\* by the campaign runner, with no client in instancias, up to its
\* await puppeteer.executablePath().
GetOrCreateSession ==
    /\ InFlightCreations # 1..MaxCreations
    /\ rest.instancias = NoClient
    /\ rest' = [rest EXCEPT !.creations[FreeSlot] =
                   [pc |-> "path", fn |-> "getOrCreateSession"]]
    /\ UNCHANGED Worker

\* Lines 257-259 and 458-460: the path is there, wppconnect.create is
\* called.
PathResolved(n) ==
    /\ rest.creations[n].pc = "path"
    /\ rest' = [rest EXCEPT !.creations[n].pc = "create"]
    /\ UNCHANGED Worker

\* Lines 262-267 and 463-468: the statusFind callback of a create under way.
StatusFind(n) ==
    /\ rest.creations[n].pc = "create"
    /\ rest' = [rest EXCEPT !.sessionStatus = "QR_CODE"]
    /\ UNCHANGED Worker

\* Lines 235-255 and 444-456: the catchQR callback of a create under way.
CatchQR(n) ==
    /\ rest.creations[n].pc = "create"
    /\ rest' = [rest EXCEPT
                   !.qrcodesTemp = TRUE,
                   !.sessionStatus =
                       IF rest.creations[n].fn = "createSessionInBackground"
                       THEN "qr_code" ELSE @]
    /\ UNCHANGED Worker

\* Lines 297-421 and 616-618: wppconnect.create has resolved with a client,
\* which the call puts in instancias.
Created(n) ==
    /\ rest.creations[n].pc = "create"
    /\ rest' = [rest EXCEPT
                   !.instancias = n,
                   !.sessionStatus =
                       IF rest.creations[n].fn = "createSessionInBackground"
                       THEN "ready" ELSE @,
                   !.creations[n] = NoCreation]
    /\ UNCHANGED Worker

\* Lines 422-427 and 619-622: the call has thrown; delete instancias[...].
CreateFailed(n) ==
    /\ rest.creations[n].pc # "off"
    /\ rest' = [rest EXCEPT
                   !.instancias = NoClient,
                   !.sessionStatus =
                       IF rest.creations[n].fn = "createSessionInBackground"
                       THEN "error" ELSE @,
                   !.creations[n] = NoCreation]
    /\ UNCHANGED Worker

NextSessions ==
    \/ PostCreateSession
    \/ GetConnectionStatus
    \/ GetOrCreateSession
    \/ \E n \in 1..MaxCreations : PathResolved(n)
    \/ \E n \in 1..MaxCreations : StatusFind(n)
    \/ \E n \in 1..MaxCreations : CatchQR(n)
    \/ \E n \in 1..MaxCreations : Created(n)
    \/ \E n \in 1..MaxCreations : CreateFailed(n)

\* The requests for one session name and the calls they start, in any
\* order.
SpecSessions == InitRest /\ [][NextSessions]_vars

----------------------------------------------------------------------------
(* Properties *)

Loops == Procs \X Campaigns

Frame(k) == loop[k[1]][k[2]]

\* The dispatches of its batch a loop has not finished with.
Holds(l) ==
    IF l.pc \in {"send", "gateway"}
    THEN {l.batch[n] : n \in l.i..Len(l.batch)}
    ELSE {}

\* The step hands a dispatch of loop k to the gateway: the first of a batch
\* just claimed, or the next one after the delay.
HandsOver(k) == Frame(k).pc \in {"update", "send"} /\ Frame(k)'.pc = "gateway"

Handed(k) == Frame(k)'.batch[Frame(k)'.i]

\* C1: when two claimants have selected the same group and one of them turns
\* its rows to processing and gets a batch, the update of the other one
\* matches no row (it sees a count of zero and returns null).
C1_RaceHasOneWinner ==
    [][\A k, j \in Loops :
          ( /\ k # j
            /\ k[2] = j[2]
            /\ Frame(k).pc = "update"
            /\ Frame(j).pc = "update"
            /\ Frame(k).first = Frame(j).first
            /\ Frame(k)'.pc = "gateway"
            /\ Frame(j)' = Frame(j) )
          => claimWhere(j[2], Frame(j).first, Frame(j).now)' = {}]_vars

\* C2: the rows of one group that are in processing are never held by two
\* claimants at once.
C2_OneHolderPerGroup ==
    \A k, j \in Loops :
        k # j =>
            \A d \in Holds(Frame(k)), e \in Holds(Frame(j)) :
                ~ ( /\ dispatch[d].status = "processing"
                    /\ dispatch[e].status = "processing"
                    /\ SameGroup(dispatch[d], dispatch[e]) )

\* C3: a dispatch that is sent or failed keeps its status and its error.
C3_TerminalNeverMutated ==
    [][\A d \in Ids :
          Terminal(dispatch[d]) =>
              /\ dispatch'[d].status = dispatch[d].status
              /\ dispatch'[d].error = dispatch[d].error]_vars

\* C4: a status changes only pending -> processing, processing -> sent,
\* processing -> failed or processing -> pending.
C4_OnlyLifecycleTransitions ==
    [][\A d \in Ids :
          dispatch'[d].status # dispatch[d].status =>
              <<dispatch[d].status, dispatch'[d].status>> \in
                  { <<"pending", "processing">>, <<"processing", "sent">>,
                    <<"processing", "failed">>, <<"processing", "pending">> }]_vars

\* C5: a dispatch whose send attempt has failed is never handed to the
\* gateway again.
C5_NoSecondAttemptAfterFailure ==
    [][\A k \in Loops : HandsOver(k) => Handed(k) \notin refused]_vars

\* C6: no dispatch is handed to the gateway while a dispatch of its group
\* with a smaller messageOrder is still pending.
C6_OrderRespectedOverTheRun ==
    [][\A k \in Loops :
          HandsOver(k) =>
              \A e \in Ids :
                  ~ ( /\ SameGroup(dispatch[e], dispatch[Handed(k)])
                      /\ dispatch[e].messageOrder <
                             dispatch[Handed(k)].messageOrder
                      /\ dispatch'[e].status = "pending" )]_vars

\* C7: within one claimed batch the dispatches are handed to the gateway in
\* strictly increasing messageOrder: the loop goes through the batch from
\* its first element on, one element at a time, and every element has a
\* greater messageOrder than all the elements before it.
C7_BatchHandedInOrder ==
    /\ [](\A k \in Loops :
            Frame(k).pc \in {"send", "gateway"} =>
                \A m, n \in 1..Len(Frame(k).batch) :
                    m < n => dispatch[Frame(k).batch[m]].messageOrder <
                                 dispatch[Frame(k).batch[n]].messageOrder)
    /\ [][\A k \in Loops :
            /\ (Frame(k).pc = "update" /\ Frame(k)'.pc = "gateway")
                   => Frame(k)'.i = 1
            /\ (Frame(k).pc = "gateway" /\ Frame(k)'.pc = "send")
                   => /\ Frame(k)'.i = Frame(k).i + 1
                      /\ Frame(k)'.batch = Frame(k).batch
            /\ (Frame(k).pc = "send" /\ Frame(k)'.pc = "gateway")
                   => /\ Frame(k)'.i = Frame(k).i
                      /\ Frame(k)'.batch = Frame(k).batch]_vars

\* A loop has handed over the second dispatch of a batch of two.
C7_Witness ==
    \E k \in Loops :
        /\ Frame(k).pc = "gateway"
        /\ Frame(k).i = 2
        /\ Len(Frame(k).batch) = 2

\* C8: a dispatch in processing with updatedAt older than now minus the TTL
\* when the sweep runs is pending when the sweep (its update having gone
\* through) returns.
C8_StuckIsPendingAfterSweep ==
    [][\A p \in Procs :
          reviveStuckProcessing(p) =>
              \A d \in Ids :
                  ( /\ dispatch[d].status = "processing"
                    /\ dispatch[d].updatedAt <
                           getCurrentBrazilTime - PROCESSING_TTL_MS )
                  => dispatch'[d].status = "pending"]_vars

\* A sweep has put back to pending a dispatch that a loop still has ahead of
\* it in its batch.
C8_Witness ==
    \E k \in Loops :
        \E d \in Holds(Frame(k)) : dispatch[d].status = "pending"

\* The ids of the table.
AllIds == UNION {DOMAIN t : t \in TablesOneGroup}

\* Dispatch d is in processing and no loop that is alive has it in its batch.
Orphaned(d) ==
    /\ dispatch[d].status = "processing"
    /\ \A k \in Loops : d \notin Holds(Frame(k))

\* C9: a dispatch left in processing by a claimant that is gone is in the end
\* put back to pending and brought to sent or failed, its campaign being
\* there and active.
C9_OrphanIsBroughtToAnEnd ==
    \A d \in AllIds :
        /\ Orphaned(d) ~> (dispatch[d].status = "pending")
        /\ Orphaned(d) ~> Terminal(dispatch[d])

\* The process has gone down with a claimed batch; the campaign is active.
C9_Witness ==
    /\ campaing[1] = "active"
    /\ \E d \in AllIds : Orphaned(d) /\ dispatch[d].updatedAt = getCurrentBrazilTime

\* C10: a loop that reads status paused goes to the paused wait and from
\* there back to the config read, and the loop of a campaign that has been
\* paused advances to claiming only after the status has become active
\* again.
C10_PausedUntilActiveAgain ==
    [][\A k \in Loops :
          /\ (Frame(k).pc = "load" /\ campaing[k[2]] = "paused")
                 => Frame(k)'.pc \in {"load", "paused", "backoff", "off"}
          /\ Frame(k).pc = "paused" => Frame(k)'.pc \in {"paused", "load", "off"}
          /\ (Frame(k).pc = "load" /\ Frame(k)'.pc = "find")
                 => k[2] \notin pausedSince]_vars

\* C11: whatever the status of the campaign other than active, the loop that
\* reads it goes to the paused wait and not on to the claim.
C11_AnyNonActiveStatusWaits ==
    [][\A k \in Loops :
          ( /\ Frame(k).pc = "load"
            /\ campaing[k[2]] \notin {NULL, "active"}
            /\ Frame(k)'.pc # "load" )
          => Frame(k)'.pc \in {"paused", "backoff", "off"}]_vars

\* C12: the loop does not end because its campaign is on pause.  While the
\* campaign is there and paused, the config read leads to the paused wait (or,
\* the read failing, to the backoff), the paused wait and the backoff lead
\* back to the config read, and the campaign stays in runningCampaigns.
C12_PauseNeverEndsTheLoop ==
    [][\A p \in Procs, c \in Campaigns :
          campaing[c] = "paused" =>
              /\ LoadConfig(p, c) =>
                    /\ loop'[p][c].pc \in {"paused", "backoff"}
                    /\ c \in runningCampaigns'[p]
              /\ (PausedWait(p, c) \/ Backoff(p, c)) =>
                    /\ loop'[p][c].pc = "load"
                    /\ c \in runningCampaigns'[p]]_vars

\* A loop is in the paused wait of a campaign on pause.
C12_Witness ==
    \E p \in Procs, c \in Campaigns :
        /\ campaing[c] = "paused"
        /\ loop[p][c].pc = "paused"
        /\ c \in runningCampaigns[p]

\* No Dispatch of campaign c is ready: none is pending, or the pending ones
\* are scheduled in the future.
NoneReady(c) ==
    \A d \in Ids :
        dispatch[d].campaignId = c =>
            \/ dispatch[d].status # "pending"
            \/ /\ dispatch[d].scheduledAt # NoSchedule
               /\ dispatch[d].scheduledAt[1] > getCurrentBrazilTime

\* C13: claimNextContactBatch on a campaign with no ready Dispatch returns
\* null (the loop, which gets no batch, ends; or the store throws) and
\* changes no Dispatch row, so that the next call finds the same.
C13_NullClaimChangesNothing ==
    [][\A p \in Procs, c \in Campaigns :
          (/\ loop[p][c].pc \in {"find", "update"}
           /\ NoneReady(c)
           /\ (ClaimFind(p, c) \/ ClaimUpdate(p, c))) =>
              /\ dispatch' = dispatch
              /\ loop'[p][c].pc \in {"off", "backoff"}
              /\ NoneReady(c)']_vars

\* A claim is under way on a campaign whose only pending Dispatch is
\* scheduled in the future.
C13_Witness ==
    \E p \in Procs, c \in Campaigns :
        /\ loop[p][c].pc = "find"
        /\ NoneReady(c)
        /\ \E d \in Ids : /\ dispatch[d].campaignId = c
                          /\ dispatch[d].status = "pending"

\* C14: no Dispatch is put in processing or handed to the gateway while its
\* scheduledAt is non-null and later than the present time.
C14_NothingBeforeItsSchedule ==
    [][/\ \A d \in Ids :
            ( /\ dispatch[d].status # "processing"
              /\ dispatch'[d].status = "processing" )
            => \/ dispatch[d].scheduledAt = NoSchedule
               \/ dispatch[d].scheduledAt[1] <= getCurrentBrazilTime
       /\ \A k \in Loops :
            HandsOver(k) =>
               \/ dispatch[Handed(k)].scheduledAt = NoSchedule
               \/ dispatch[Handed(k)].scheduledAt[1] <= getCurrentBrazilTime]_vars

\* A Dispatch with a scheduledAt, which has passed, is with the gateway.
C14_Witness ==
    \E k \in Loops :
        /\ Frame(k).pc = "gateway"
        /\ dispatch[Frame(k).batch[Frame(k).i]].scheduledAt # NoSchedule
        /\ dispatch[Frame(k).batch[Frame(k).i]].status = "processing"

\* The dispatch the gateway is called for by the loop of campaign c in p.
InFlight(p, c) == loop[p][c].batch[loop[p][c].i]

\* After the answer for batch[i] the loop of campaign c in p is alive and
\* goes on with batch[i+1], or with the pacing when batch[i] was the last.
GoesOn(p, c) ==
    /\ c \in runningCampaigns'[p]
    /\ IF loop[p][c].i < Len(loop[p][c].batch)
       THEN /\ loop'[p][c].pc = "send"
            /\ loop'[p][c].batch = loop[p][c].batch
            /\ loop'[p][c].i = loop[p][c].i + 1
       ELSE loop'[p][c].pc = "pace"

C16_OutcomeIsRecordedAsItWas ==
    [][\A p \in Procs, c \in Campaigns, o \in GatewayOutcomes :
          Answer(p, c, o) =>
              \/ dispatch'[InFlight(p, c)] = dispatch[InFlight(p, c)]
              \/ /\ o = "ok"
                 /\ dispatch'[InFlight(p, c)].status = "sent"
                 /\ dispatch'[InFlight(p, c)].error = NULL
              \/ /\ o # "ok"
                 /\ dispatch'[InFlight(p, c)].status = "failed"
                 /\ dispatch'[InFlight(p, c)].error =
                       CASE o = "refused_message" -> "gateway message"
                         [] o = "refused" -> "Falha no envio"
                         [] OTHER -> "axios error"]_vars

\* C17: with a ceiling above 0 runningCampaigns never has more campaignIds
\* than the ceiling; and with a ceiling of 1, runningCampaigns empty and two
\* campaigns with ready work, a tick starts the loop of one of them and
\* leaves the other one as it is.
C17_NeverAboveTheCeiling ==
    /\ [](\A p \in Procs :
            MAX_CAMPAIGN_CONCURRENCY > 0 =>
                Cardinality(runningCampaigns[p]) <= MAX_CAMPAIGN_CONCURRENCY)
    /\ [][\A p \in Procs :
            ( /\ orchestrate(p)
              /\ MAX_CAMPAIGN_CONCURRENCY = 1
              /\ runningCampaigns[p] = {}
              /\ Cardinality(availableCampaigns) = 2 )
            => /\ Cardinality(runningCampaigns'[p]) = 1
               /\ \E c \in Campaigns :
                     /\ runningCampaigns'[p] = {c}
                     /\ loop'[p][c] = Spawned
                     /\ \A b \in Campaigns \ {c} : loop'[p][b] = Off]_vars

\* The ceiling is 1, one campaign is running and the other one, which has
\* ready work, is not.
C17_Witness ==
    /\ MAX_CAMPAIGN_CONCURRENCY = 1
    /\ \E c \in availableCampaigns :
          /\ c \notin runningCampaigns[1]
          /\ Cardinality(runningCampaigns[1]) = 1

\* C18: a campaign with ready work that is not running is launched in the
\* end, unless its ready work is gone before.
C18_DeferredIsLaunchedInTheEnd ==
    \A c \in Campaigns :
        (c \in availableCampaigns /\ c \notin runningCampaigns[1])
            ~> (c \in runningCampaigns[1] \/ c \notin availableCampaigns)

\* C19: a process runs at most one loop per campaignId: whatever order the
\* discovery returns, a tick calls processCampaign for no campaignId that is
\* in runningCampaigns and for none twice, and a frame is only set up for a
\* campaign that was not in runningCampaigns and had no live loop.
C19_OneLoopPerCampaign ==
    /\ [](\A p \in Procs : \A order \in Orders(availableCampaigns) :
            LET launched == Launch(order, runningCampaigns[p])
            IN  /\ \A n \in DOMAIN launched :
                      launched[n] \notin runningCampaigns[p]
                /\ \A m, n \in DOMAIN launched :
                      launched[m] = launched[n] => m = n)
    /\ [][\A p \in Procs, c \in Campaigns :
            (loop'[p][c] = Spawned /\ loop[p][c] # Spawned)
                => (loop[p][c] = Off /\ c \notin runningCampaigns[p])]_vars

\* A campaign with ready work whose loop is in the middle of a send: the
\* tick finds it in runningCampaigns.
C19_Witness ==
    \E c \in Campaigns :
        /\ c \in availableCampaigns
        /\ c \in runningCampaigns[1]
        /\ loop[1][c].pc = "gateway"

\* C20: a campaignId is in runningCampaigns exactly while its loop is live;
\* a step that ends the loop, by whatever path, takes it out; and a tick
\* that finds ready work of a campaign that is not in the set launches it.
C20_ListedWhileLive ==
    /\ [](\A p \in Procs, c \in Campaigns :
            c \in runningCampaigns[p] <=> loop[p][c].pc # "off")
    /\ [][\A p \in Procs, c \in Campaigns :
            (loop[p][c].pc # "off" /\ loop'[p][c].pc = "off")
                => (c \in runningCampaigns[p] /\ c \notin runningCampaigns'[p])]_vars
    /\ [][\A p \in Procs, c \in Campaigns :
            ( /\ MAX_CAMPAIGN_CONCURRENCY = 0
              /\ c \notin runningCampaigns[p]
              /\ c \in availableCampaigns
              /\ orchestrate(p) )
                => (c \in runningCampaigns'[p] /\ loop'[p][c] = Spawned)]_vars

\* A loop of the campaign has run and ended (a message of it has its
\* outcome, no loop of it is live in process 2), and process 1 has
\* launched it anew.
C20_Witness ==
    \E c \in Campaigns :
        /\ loop[1][c] = Spawned
        /\ c \in runningCampaigns[1]
        /\ loop[2][c] = Off
        /\ \E d \in Ids : dispatch[d].campaignId = c /\ Terminal(dispatch[d])

\* C21: a call of orchestrate() ends with exactly one setTimeout, whether
\* its discovery went through or threw and whatever its sweep did, so that
\* at any time either one call is under way or one setTimeout is pending;
\* and the calls go on for ever, whatever the loops they launched are doing.
C21_OneNextTickForEver ==
    /\ [](timer[1].pending + (IF timer[1].pc = "none" THEN 0 ELSE 1) = 1)
    /\ [][TickDiscover(1) =>
            (timer'[1].pc = "none" /\ timer'[1].pending = timer[1].pending + 1)]_vars
    /\ []<>(timer[1].pc = "sweep")
    /\ []<>(timer[1].pc = "none")

\* A call of orchestrate() starts while a loop launched by an earlier call
\* is in its paused wait.
C21_Witness ==
    /\ timer[1].pc = "sweep"
    /\ \E c \in runningCampaigns[1] : loop[1][c].pc = "paused"

\* C22: an error at a step of a Campaign Loop never ends the loop: the loop
\* of a campaign whose row is there does not end at its first read nor at
\* the re-read of an iteration, a claim that had a ready Dispatch to find
\* does not end it, and neither does the write of an outcome.
C22_ErrorNeverEndsTheLoop ==
    [][\A c \in Campaigns :
          /\ (LoadInitial(1, c) /\ campaing[c] # NULL)
                => loop'[1][c].pc \in {"load", "backoff"}
          /\ (LoadConfig(1, c) /\ campaing[c] # NULL)
                => loop'[1][c].pc # "off"
          /\ (ClaimFind(1, c) /\ findFirst(c, loop[1][c].now) # {})
                => loop'[1][c].pc # "off"
          /\ SendResult(1, c) => loop'[1][c].pc # "off"]_vars

\* C23: a Dispatch that is pending and ready, its campaign there and active,
\* is in the end claimed by some loop, a claim that lost a race and ended
\* its loop notwithstanding.
C23_ReadyIsClaimedInTheEnd ==
    \A d \in AllIds :
        (dispatch[d].status = "pending" /\ ReadyAt(dispatch[d], getCurrentBrazilTime))
            ~> (dispatch[d].status = "processing")

\* Loop k is in a claim on the contact of row r: its findFirst has selected
\* that contact and its update is still to come.
Claims(k, r) ==
    /\ Frame(k).pc = "update"
    /\ k[2] = r.campaignId
    /\ Frame(k).first.contact = r.contact

\* C24 as stated: a claim on a campaign returns a batch while the campaign
\* has a ready pending Dispatch of a contact that no other claimant is
\* claiming.
C24_ReadyContactMeansBatch ==
    [][\A p \in Procs, c \in Campaigns :
          (ClaimUpdate(p, c) /\ loop'[p][c].pc = "off") =>
              \A d \in Ids :
                  ( /\ dispatch[d].campaignId = c
                    /\ ReadyAt(dispatch[d], loop[p][c].now) )
                  => \E k \in Loops \ {<<p, c>>} : Claims(k, dispatch[d])]_vars

\* C24: a claim returns null at its update only when the group its findFirst
\* selected has no ready pending Dispatch left; when it has, the claim
\* returns a batch; and the update of a claim on another group, of the same
\* campaign or of another one, leaves the rows a claim is about to take as
\* they are.
C24_OtherGroupsDoNotInterfere ==
    [][\A p \in Procs, c \in Campaigns :
          LET l == loop[p][c] IN
          /\ (ClaimUpdate(p, c) /\ loop'[p][c].pc = "off")
                => claimWhere(c, l.first, l.now) = {}
          /\ ( /\ ClaimUpdate(p, c)
               /\ claimWhere(c, l.first, l.now) # {}
               /\ dispatch' # dispatch )
                => /\ loop'[p][c].pc = "gateway"
                   /\ loop'[p][c].batch # <<>>
          /\ \A k \in Loops \ {<<p, c>>} :
                ( /\ Frame(k).pc = "update"
                  /\ l.pc = "update"
                  /\ (k[2] # c \/ Frame(k).first # l.first)
                  /\ ClaimUpdate(p, c) )
                => claimWhere(k[2], Frame(k).first, Frame(k).now)'
                       = claimWhere(k[2], Frame(k).first, Frame(k).now)]_vars

\* Two claims are under way on two contacts of one campaign.
C24_Witness ==
    \E p, q \in Procs, c \in Campaigns :
        /\ loop[p][c].pc = "update"
        /\ loop[q][c].pc = "update"
        /\ loop[p][c].first.contact # loop[q][c].first.contact

\* The field of the profile the spec maps a key to, as a string: the empty
\* string for a key that is not one of the three, for a field that is null,
\* and when there is no profile.
Mapped(k, contactData) ==
    LET field == IF contactData = NoProfile THEN Nothing
                 ELSE IF k = "nome" THEN contactData.name
                 ELSE IF k = "email" THEN contactData.email
                 ELSE IF k = "empresa" THEN contactData.empresa
                 ELSE Nothing
    IN  IF field = Nothing THEN <<>> ELSE field

\* C25: renderTemplate raises no error; it puts the mapped field, or the
\* empty string when the key is unknown, the field null or the profile
\* absent, in the place of a placeholder, whatever precedes it, and does not
\* expand what it has put in; a text without a placeholder is left as it is.
C25_RenderedAsMapped ==
    template.finalMessage # NotYet =>
        /\ template.finalMessage # TypeError
        /\ \A k \in Words :
              /\ template.text = <<"{{", k, "}}">>
                    => template.finalMessage = Mapped(k, template.contactData)
              /\ template.text = <<"!", "{{", k, "}}">>
                    => template.finalMessage =
                          <<"!">> \o Mapped(k, template.contactData)
        /\ ( /\ template.text \in Texts
             /\ \A i \in DOMAIN template.text : template.text[i] # "{{" )
              => template.finalMessage = template.text

\* The ready pending Dispatches of campaign c as a claim with this `now`
\* sees them.
ReadyOf(c, now) ==
    {d \in Ids : dispatch[d].campaignId = c /\ ReadyAt(dispatch[d], now)}

\* C26: the findFirst of a claim that finds something selects the group of
\* the ready pending Dispatch of the campaign that comes first by contact,
\* then messageOrder, then createdAt, so that no contact with a ready
\* pending Dispatch is smaller than the selected one; and the batch of the
\* claim is of that contact.
C26_SmallestContactFirst ==
    [][\A p \in Procs, c \in Campaigns :
          LET l == loop[p][c]
              ready == ReadyOf(c, l.now)
          IN
          /\ (ClaimFind(p, c) /\ loop'[p][c].pc = "update") =>
                /\ \E d \in ready :
                      /\ loop'[p][c].first.contact = dispatch[d].contact
                      /\ loop'[p][c].first.sessionName = dispatch[d].sessionName
                      /\ \A e \in ready :
                            \/ dispatch[d].contact < dispatch[e].contact
                            \/ /\ dispatch[d].contact = dispatch[e].contact
                               /\ dispatch[d].messageOrder
                                      < dispatch[e].messageOrder
                            \/ /\ dispatch[d].contact = dispatch[e].contact
                               /\ dispatch[d].messageOrder
                                      = dispatch[e].messageOrder
                               /\ dispatch[d].createdAt <= dispatch[e].createdAt
                /\ \A e \in ready :
                      loop'[p][c].first.contact <= dispatch[e].contact
          /\ (ClaimUpdate(p, c) /\ loop'[p][c].pc = "gateway") =>
                \A n \in DOMAIN loop'[p][c].batch :
                    dispatch[loop'[p][c].batch[n]].contact = l.first.contact]_vars

\* A batch of the first contact is with the gateway while the second
\* contact has a ready pending Dispatch.
C26_Witness ==
    \E c \in Campaigns :
        /\ loop[1][c].pc = "gateway"
        /\ dispatch[loop[1][c].batch[1]].contact = 1
        /\ \E d \in Ids : /\ dispatch[d].campaignId = c
                          /\ dispatch[d].contact = 2
                          /\ ReadyAt(dispatch[d], getCurrentBrazilTime)

\* C27: a claim that succeeds moves to processing every row of the group it
\* selected that is pending and due by the `now` of the claim, changing
\* nothing else of it but the stamp, and leaves every other row as it is:
\* the rows of the group that are due later or not pending, and the rows of
\* other contacts, sessions and campaigns.
C27_OnlyTheGroupIsMoved ==
    [][\A p \in Procs, c \in Campaigns :
          LET l == loop[p][c] IN
          (ClaimUpdate(p, c) /\ loop'[p][c].pc = "gateway") =>
              \A d \in Ids :
                  IF /\ dispatch[d].campaignId = c
                     /\ dispatch[d].contact = l.first.contact
                     /\ dispatch[d].sessionName = l.first.sessionName
                     /\ dispatch[d].status = "pending"
                     /\ \/ dispatch[d].scheduledAt = NoSchedule
                        \/ dispatch[d].scheduledAt[1] <= l.now
                  THEN /\ dispatch'[d].status = "processing"
                       /\ [dispatch'[d] EXCEPT !.status = "pending",
                                               !.updatedAt = 0]
                              = [dispatch[d] EXCEPT !.updatedAt = 0]
                  ELSE dispatch'[d] = dispatch[d]]_vars

\* A claim has taken the second message of the first contact's group; the
\* first message, due later, the message on the other session and the
\* message of the other contact are pending.
C27_Witness ==
    /\ loop[1][1].pc = "gateway"
    /\ loop[1][1].batch = <<2>>
    /\ dispatch[2].status = "processing"
    /\ dispatch[1].status = "pending"
    /\ dispatch[1].scheduledAt # NoSchedule
    /\ dispatch[3].status = "pending"
    /\ dispatch[4].status = "pending"

\* C28: the batch a claim returns is the set of the rows its update moved
\* from pending to processing, no more and no fewer.
C28_BatchIsWhatWasMoved ==
    [][\A p \in Procs, c \in Campaigns :
          (ClaimUpdate(p, c) /\ dispatch' # dispatch) =>
              /\ loop'[p][c].pc = "gateway"
              /\ {loop'[p][c].batch[n] : n \in DOMAIN loop'[p][c].batch}
                    = {d \in Ids : /\ dispatch[d].status = "pending"
                                   /\ dispatch'[d].status = "processing"}]_vars

\* C29: a claim that fails, at its findFirst, at or after its update, or by
\* the timeout of the transaction, leaves the status of every Dispatch as
\* it was and its loop live, in the backoff; and after the backoff the loop
\* goes on with its next iteration.
C29_FailedClaimChangesNothing ==
    [][\A p \in Procs, c \in Campaigns :
          /\ (InClaim(loop[p][c]) /\ loop'[p][c].pc = "backoff") =>
                /\ \A d \in Ids : dispatch'[d].status = dispatch[d].status
                /\ c \in runningCampaigns'[p]
          /\ Backoff(p, c) =>
                /\ loop'[p][c].pc = "load"
                /\ dispatch' = dispatch]_vars

\* A claim has failed: the loop is in its backoff, the campaign has a ready
\* pending Dispatch and no Dispatch is in processing.
C29_Witness ==
    \E c \in Campaigns :
        /\ loop[1][c].pc = "backoff"
        /\ ReadyOf(c, getCurrentBrazilTime) # {}
        /\ \A d \in Ids : dispatch[d].status \in {"pending", "sent", "failed"}
        /\ \E d \in Ids : Terminal(dispatch[d])

\* C30: a sweep of the Reviver changes only the rows that are in processing
\* with an updatedAt older than the present time minus PROCESSING_TTL_MS:
\* every other row is after the sweep what it was before it, and a row
\* leaves processing for pending only when it was that old.
C30_SweepTouchesOnlyTheStuck ==
    [][/\ \A p \in Procs :
            reviveStuckProcessing(p) =>
                \A d \in Ids :
                    ( \/ dispatch[d].status # "processing"
                      \/ dispatch[d].updatedAt
                             >= getCurrentBrazilTime - PROCESSING_TTL_MS )
                    => dispatch'[d] = dispatch[d]
       /\ \A d \in Ids :
            ( /\ dispatch[d].status = "processing"
              /\ dispatch'[d].status = "pending" )
            => dispatch[d].updatedAt
                   < getCurrentBrazilTime - PROCESSING_TTL_MS]_vars

\* The second message of the first contact, which is claimed before any
\* message of the second contact, is pending again, while the message of the
\* second contact is in processing with a stamp within the TTL.
C30_Witness ==
    /\ dispatch[2].status = "pending"
    /\ dispatch[3].status = "processing"
    /\ dispatch[3].updatedAt >= getCurrentBrazilTime - PROCESSING_TTL_MS
    /\ \E d \in Ids : Terminal(dispatch[d])

\* C31: in a call of orchestrate() the sweep comes first and once: rows go
\* from processing back to pending only in the step that takes the call from
\* its sweep to its discovery, that step launches nothing, and the rows it
\* revived that are ready are in the result of a discovery made right after
\* it; the call goes to its discovery whether the sweep changed rows or
\* threw; loops are launched only by the discovery, for campaigns it found.
C31_SweepThenDiscovery ==
    /\ [][(timer[1].pc = "sweep" /\ timer'[1] # timer[1]) =>
            /\ timer'[1].pc = "discover"
            /\ \/ dispatch' = [d \in Ids |-> Revived(dispatch[d])]
               \/ dispatch' = dispatch
            /\ UNCHANGED <<runningCampaigns, loop>>
            /\ \A d \in Ids :
                  (dispatch'[d] # dispatch[d] /\
                   ReadyAt(dispatch'[d], getCurrentBrazilTime)) =>
                      dispatch[d].campaignId \in availableCampaigns']_vars
    /\ [][(\E d \in Ids : /\ dispatch[d].status = "processing"
                          /\ dispatch'[d].status = "pending") =>
            (timer[1].pc = "sweep" /\ timer'[1].pc = "discover")]_vars
    /\ [][timer'[1].pc = "discover" => timer[1].pc \in {"sweep", "discover"}]_vars
    /\ [][runningCampaigns'[1] \ runningCampaigns[1] # {} =>
            /\ timer[1].pc = "discover"
            /\ timer'[1].pc = "none"
            /\ runningCampaigns'[1] \ runningCampaigns[1]
                   \subseteq availableCampaigns]_vars
    /\ (timer[1].pc = "sweep") ~> (timer[1].pc = "discover")
    /\ (timer[1].pc = "discover") ~> (timer[1].pc = "none")

\* A call is at its discovery, after its sweep, with a ready Dispatch of a
\* campaign that has no loop, a Dispatch that was ready from the start, and
\* another Dispatch of its group already at its end: it was claimed with the
\* other one, left in processing and revived.
C31_Witness ==
    /\ timer[1].pc = "discover"
    /\ runningCampaigns[1] = {}
    /\ \E d, e \in Ids :
          /\ ReadyAt(dispatch[d], getCurrentBrazilTime)
          /\ dispatch[d].scheduledAt = NoSchedule
          /\ Terminal(dispatch[e])

\* C32: when the read of the campaign row, before the loop or at the start
\* of an iteration, goes through and finds no row, processCampaign returns:
\* the loop is over without a claim having been started, no Dispatch row is
\* changed, and the campaignId is taken out of runningCampaigns.
C32_NoRowEndsTheLoop ==
    [][\A c \in Campaigns :
          (/\ loop[1][c].pc \in {"init", "load"}
           /\ campaing[c] = NULL
           /\ (LoadInitial(1, c) \/ LoadConfig(1, c))
           /\ Through(1, c)) =>
              /\ loop'[1][c] = Off
              /\ dispatch' = dispatch
              /\ c \notin runningCampaigns'[1]]_vars

\* The loop of a campaign has ended at the re-read of a later iteration: its
\* row is gone, a Dispatch of the campaign is at its end and another one is
\* still pending and ready.
C32_Witness ==
    \E c \in Campaigns :
        /\ campaing[c] = NULL
        /\ loop[1][c].pc = "off"
        /\ c \notin runningCampaigns[1]
        /\ \E d, e \in Ids :
              /\ dispatch[d].campaignId = c
              /\ dispatch[e].campaignId = c
              /\ Terminal(dispatch[e])
              /\ ReadyAt(dispatch[d], getCurrentBrazilTime)

\* C33: a campaign set to paused while its loop is in a batch: the loop goes
\* through the rest of the batch as it would have (the next gateway call can
\* be made, each answer leads to the next message or to the pacing, the
\* batch is the same), the pacing leads to the re-read, and while the status
\* is paused no step of the loop leads from there to a claim.
C33_PauseTakesEffectAfterTheBatch ==
    /\ [](\A c \in Campaigns :
            (campaing[c] = "paused" /\ loop[1][c].pc = "send") =>
                ENABLED SendCall(1, c))
    /\ [](\A c \in Campaigns :
            (campaing[c] = "paused" /\ loop[1][c].pc = "gateway") =>
                ENABLED SendResult(1, c))
    /\ [][\A c \in Campaigns :
            (campaing[c] = "paused" /\ loop'[1][c] # loop[1][c]) =>
                /\ loop[1][c].pc = "send" =>
                      /\ loop'[1][c].pc = "gateway"
                      /\ loop'[1][c].batch = loop[1][c].batch
                      /\ loop'[1][c].i = loop[1][c].i
                /\ loop[1][c].pc = "gateway" => GoesOn(1, c)
                /\ loop[1][c].pc = "pace" => loop'[1][c].pc = "load"
                /\ loop[1][c].pc \in {"load", "paused", "backoff"} =>
                      loop'[1][c].pc \in {"load", "paused", "backoff"}]_vars

\* The campaign is on pause, the loop has sent the first message of a batch
\* of two and is at the gateway call of the second.
C33_Witness ==
    \E c \in Campaigns :
        /\ campaing[c] = "paused"
        /\ loop[1][c].pc = "gateway"
        /\ loop[1][c].i = 2
        /\ dispatch[loop[1][c].batch[1]].status = "sent"

\* C34: the messages of a batch go to the gateway one at a time.  A gateway
\* call is started either by the claim, for the first Dispatch of the batch,
\* or after the delay that follows the answer to the call before, for the
\* next Dispatch of the same batch; while a call is out the loop does nothing
\* but take its answer, which writes (or fails to write) the outcome on the
\* Dispatch that was sent and on no other, before the loop moves on.
C34_OneCallAtATime ==
    [][\A c \in Campaigns :
          loop'[1][c] # loop[1][c] =>
              /\ loop'[1][c].pc = "gateway" =>
                    \/ /\ loop[1][c].pc = "update"
                       /\ loop'[1][c].i = 1
                    \/ /\ loop[1][c].pc = "send"
                       /\ loop'[1][c].batch = loop[1][c].batch
                       /\ loop'[1][c].i = loop[1][c].i
              /\ loop'[1][c].pc = "send" =>
                    /\ loop[1][c].pc = "gateway"
                    /\ loop'[1][c].batch = loop[1][c].batch
                    /\ loop'[1][c].i = loop[1][c].i + 1
              /\ loop[1][c].pc = "gateway" =>
                    /\ \E o \in GatewayOutcomes : Answer(1, c, o)
                    /\ \A e \in Ids \ {InFlight(1, c)} :
                          dispatch'[e] = dispatch[e]]_vars

\* The second call of a batch of two is out, the first having been answered
\* and its Dispatch written as failed.
C34_Witness ==
    \E c \in Campaigns :
        /\ loop[1][c].pc = "gateway"
        /\ loop[1][c].i = 2
        /\ Len(loop[1][c].batch) = 2
        /\ dispatch[loop[1][c].batch[1]].status = "failed"

\* C35: the sweep takes back to pending no Dispatch that a loop still has in
\* the batch it is working through.
C35_NoRevivalUnderALiveLoop ==
    [][\A d \in Ids :
          (dispatch[d].status = "processing" /\ dispatch'[d].status = "pending")
              => \A k \in Loops : d \notin Holds(Frame(k))]_vars

\* C36: a Dispatch whose gateway call was answered with a truthy status is
\* not written as failed, whatever becomes of the write of its sent status.
C36_DeliveredIsNeverFailed ==
    [][\A c \in Campaigns :
          (loop[1][c].pc = "gateway" /\ Answer(1, c, "ok")) =>
              dispatch'[InFlight(1, c)].status # "failed"]_vars

\* The pending rows of campaign c.
PendingOf(c) ==
    {d \in Ids : dispatch[d].campaignId = c /\ dispatch[d].status = "pending"}

\* C37: with the campaign there and active, no Dispatch added and the store
\* and the gateway answering, a loop that has been launched comes to its
\* end; a claim that hands a batch to the loop leaves the campaign with fewer
\* pending rows than it found, and a claim whose findFirst finds no ready row
\* ends the loop.
C37_TheLoopComesToAnEnd ==
    /\ \A c \in Campaigns : (loop[1][c].pc # "off") ~> (loop[1][c].pc = "off")
    /\ [][\A c \in Campaigns :
            /\ (ClaimUpdate(1, c) /\ loop'[1][c].pc = "gateway") =>
                  /\ PendingOf(c)' \subseteq PendingOf(c)
                  /\ PendingOf(c)' # PendingOf(c)
            /\ (/\ loop[1][c].pc = "find"
                /\ findFirst(c, loop[1][c].now) = {}
                /\ ClaimFind(1, c)
                /\ Through(1, c)) =>
                  (loop'[1][c].pc = "off" /\ c \notin runningCampaigns'[1])]_vars

\* A loop that has sent is at a claim that will find nothing ready.
C37_Witness ==
    \E c \in Campaigns :
        /\ loop[1][c].pc = "find"
        /\ findFirst(c, loop[1][c].now) = {}
        /\ \E d \in Ids : dispatch[d].campaignId = c /\ Terminal(dispatch[d])

\* C38: once the cancel request has set the status of the campaign to
\* cancelled, the status stays cancelled: every later read of it by the
\* status request finds cancelled.
C38_CancelledForGood ==
    [][rest.campaignQueue.status = "cancelled" =>
          rest'.campaignQueue.status = "cancelled"]_vars

\* C39: processedContacts is never above totalContacts, and the percentage
\* the status request computes is never above 100.
C39_ProcessedWithinTotal ==
    /\ rest.campaignQueue.processedContacts <= rest.campaignQueue.totalContacts
    /\ progress <= 100

\* C40: for the session there is never more than one call under way that
\* creates a client.
C40_OneCreationAtATime == Cardinality(InFlightCreations) <= 1

====
